---- MODULE Spec2Model ----
(***************************************************************************)
(* Model of app.py, a Streamlit script that is re-run from top to bottom   *)
(* on every user interaction.  A run emits the page chrome, dispatches on  *)
(* the extension of the uploaded file and then either previews a table and *)
(* builds a chart (xlsx/xls/csv) or extracts text and builds a word cloud  *)
(* (pdf/docx).  Strings that the program inspects (file names, extracted   *)
(* text) are sequences of one-character strings; labels that it only       *)
(* passes on are TLA+ strings.                                             *)
(***************************************************************************)
EXTENDS Integers, Sequences, FiniteSets, TLC

VARIABLES
    pc,             \* position of the script run
    uploaded_file,  \* value of the file_uploader widget (line 24), or None
    chart_type,     \* value of the chart selectbox (line 31)
    ui_sheet,       \* what the user has picked in the sheet selectbox
    ui_cols,        \* what the user has picked in the multiselect, in order
    file_type,      \* line 82
    branch,         \* which arm of the if/elif chain of lines 84-144 ran
    sheet_names,    \* line 86
    selected_sheet, \* line 87
    df,             \* lines 88 / 111 (the column names of the frame)
    cols,           \* lines 94 / 115
    fig,            \* lines 98-105 / 119-126
    text,           \* lines 133 / 147
    wc_calls,       \* arguments generate_wordcloud was invoked with
    out,            \* elements emitted to the page by this run, in order
    err,            \* the exception that ended the run, if any
    handles,        \* container handles that are open and not released
    args,           \* arguments of a direct call of extract_text_from_pdf
    ret             \* what that call returned

vars == <<pc, uploaded_file, chart_type, ui_sheet, ui_cols, file_type, branch,
          sheet_names, selected_sheet, df, cols, fig, text, wc_calls, out,
          err, handles, args, ret>>

-----------------------------------------------------------------------------
(* Bounds of the model *)

MaxPages == 6       \* pages of an uploaded PDF
MaxParas == 4       \* paragraphs of an uploaded DOCX
LongLen == 1999     \* length of the long text unit
MaxDocPages == 10   \* pages of the PDF in a direct call of the extractor
MaxStart == 11      \* start_page of a direct call
MaxEnd == 20        \* end_page of a direct call

(* Program constants *)

PreviewLimit == 2000    \* text[:2000], len(text) > 2000
DefaultEndPage == 5     \* extract_text_from_pdf(uploaded_file, 0, 5)

None == "None"
NoErr == "none"
NoFig == [kind |-> "None", x |-> "None", y |-> "None", title |-> <<>>]
NoText == << "<None>" >>     \* page.extract_text() returning None

Min(a, b) == IF a < b THEN a ELSE b
Max(a, b) == IF a > b THEN a ELSE b

-----------------------------------------------------------------------------
(* Characters and Python's str methods *)

Whitespace == {" ", "\t", "\n"}

lower_char(c) ==
    CASE c = "X" -> "x" [] c = "L" -> "l" [] c = "S" -> "s" [] c = "C" -> "c"
      [] c = "V" -> "v" [] c = "P" -> "p" [] c = "D" -> "d" [] c = "F" -> "f"
      [] c = "O" -> "o" [] c = "R" -> "r" [] OTHER -> c

upper_char(c) ==
    CASE c = "x" -> "X" [] c = "l" -> "L" [] c = "s" -> "S" [] c = "c" -> "C"
      [] c = "v" -> "V" [] c = "p" -> "P" [] c = "d" -> "D" [] c = "f" -> "F"
      [] c = "o" -> "O" [] c = "r" -> "R" [] OTHER -> c

\* str.lower()
lower(s) == [i \in 1..Len(s) |-> lower_char(s[i])]

\* str.split(sep) for a one-character separator
RECURSIVE split(_, _)
split(s, sep) ==
    IF \A i \in 1..Len(s) : s[i] # sep
    THEN <<s>>
    ELSE LET k == CHOOSE i \in 1..Len(s) :
                      s[i] = sep /\ \A j \in 1..(i - 1) : s[j] # sep
         IN  <<SubSeq(s, 1, k - 1)>> \o split(SubSeq(s, k + 1, Len(s)), sep)

\* the piece of the split list that line 82 takes: [-1]
ExtensionPiece(parts) == parts[Len(parts)]

\* the case folding line 82 applies to that piece
FoldCase_Identity(s) == s
FoldCase(s) == lower(s)

\* str.strip()
RECURSIVE lstrip(_)
lstrip(s) ==
    IF s # <<>> /\ Head(s) \in Whitespace THEN lstrip(Tail(s)) ELSE s

RECURSIVE rstrip(_)
rstrip(s) ==
    IF s # <<>> /\ s[Len(s)] \in Whitespace
    THEN rstrip(SubSeq(s, 1, Len(s) - 1)) ELSE s

strip(s) == rstrip(lstrip(s))

\* sep.join(list)
RECURSIVE join(_, _)
join(sep, list) ==
    IF list = <<>> THEN <<>>
    ELSE IF Len(list) = 1 THEN list[1]
    ELSE list[1] \o sep \o join(sep, Tail(list))

-----------------------------------------------------------------------------
(* Helper functions, lines 39-76 *)

\* line 61: end_page = min(end_page, total_pages)
ClampEnd_NoMin(end_page, total_pages) == end_page
ClampEnd(end_page, total_pages) == Min(end_page, total_pages)

\* line 64: page.extract_text() or ""
OrEmpty(t) == IF t = NoText \/ t = <<>> THEN <<>> ELSE t

\* lines 62-64: the loop; pdf.pages[i] raises IndexError past the last page
RECURSIVE pdf_loop(_, _, _, _)
pdf_loop(pages, i, end_page, acc) ==
    IF i >= end_page THEN acc
    ELSE IF i >= Len(pages)
    THEN [acc EXCEPT !.accessed = Append(@, i), !.err = "IndexError"]
    ELSE pdf_loop(pages, i + 1, end_page,
                  [acc EXCEPT !.text = @ \o OrEmpty(pages[i + 1]),
                              !.accessed = Append(@, i)])

\* lines 55-65; pdfplumber.open raises on bytes that are not a PDF
extract_text_from_pdf(file, start_page, end_page) ==
    IF file.parse # "ok"
    THEN [text |-> <<>>, accessed |-> <<>>, err |-> "ParseError"]
    ELSE LET total_pages == Len(file.pages)
             clamped == ClampEnd(end_page, total_pages)
         IN  pdf_loop(file.pages, start_page, clamped,
                      [text |-> <<>>, accessed |-> <<>>, err |-> NoErr])

\* line 71: the filter "if p.text.strip()"
KeepParagraph_NoStrip(p) == p # <<>>
KeepParagraph(p) == strip(p) # <<>>

\* line 71: the separator of the join
ParagraphSeparator == <<" ">>

\* lines 67-71; Document(file) raises on bytes that are not a DOCX package
extract_text_from_docx(file) ==
    IF file.parse # "ok"
    THEN [text |-> <<>>, err |-> "ParseError"]
    ELSE [text |-> join(ParagraphSeparator,
                        SelectSeq(file.paragraphs, KeepParagraph)),
          err |-> NoErr]

\* lines 39-43; pd.ExcelFile raises on a corrupt workbook
get_excel_sheet_names(file) ==
    IF file.parse = "corrupt"
    THEN [sheet_names |-> <<>>, err |-> "ParseError"]
    ELSE [sheet_names |-> [i \in 1..Len(file.sheets) |-> file.sheets[i].name],
          err |-> NoErr]

\* lines 45-48; pd.read_excel raises when the sheet cannot be parsed
read_excel(file, sheet_name) ==
    IF file.parse # "ok"
    THEN [columns |-> <<>>, err |-> "ParseError"]
    ELSE LET k == CHOOSE i \in 1..Len(file.sheets) :
                      file.sheets[i].name = sheet_name
         IN  [columns |-> file.sheets[k].columns, err |-> NoErr]

\* lines 50-53; pd.read_csv raises on malformed delimited text
read_csv(file) ==
    IF file.parse # "ok"
    THEN [columns |-> <<>>, err |-> "ParseError"]
    ELSE [columns |-> file.columns, err |-> NoErr]

\* WordCloud.generate raises ValueError when the text holds no word
HasWord(t) == \E i \in 1..Len(t) : t[i] \notin Whitespace

\* lines 73-76
generate_wordcloud(t) ==
    IF HasWord(t) THEN [image |-> "wordcloud", err |-> NoErr]
    ELSE [image |-> None, err |-> "ValueError"]

-----------------------------------------------------------------------------
(* Main logic, lines 81-159 *)

XLSX == <<"x", "l", "s", "x">>
XLS == <<"x", "l", "s">>
CSV == <<"c", "s", "v">>
PDF == <<"p", "d", "f">>
DOCX == <<"d", "o", "c", "x">>

\* line 26: type=["xlsx", "xls", "csv", "pdf", "docx"]
AcceptedTypes == {XLSX, XLS, CSV, PDF, DOCX}

\* line 33
ChartTypes == {"Bar Chart", "Pie Chart", "Line Chart", "Scatter Plot"}

\* line 82: uploaded_file.name.split(".")[-1].lower()
file_type_of(name) == FoldCase(ExtensionPiece(split(name, ".")))

\* the if/elif chain of lines 84, 109, 130, 144
BranchOf(ft) ==
    IF ft \in {XLSX, XLS} THEN "excel"
    ELSE IF ft = CSV THEN "csv"
    ELSE IF ft = PDF THEN "pdf"
    ELSE IF ft = DOCX THEN "docx"
    ELSE "none"

\* lines 95 / 116: if len(cols) >= 2
ChartGuard_AtLeastOne(c) == Len(c) >= 1
ChartGuard(c) == Len(c) >= 2

\* lines 96 / 117: x_axis, y_axis = cols[0], cols[1]
ChartAxes_Swapped(c) == [x |-> c[2], y |-> c[1]]
ChartAxes(c) == [x |-> c[1], y |-> c[2]]

\* lines 98-105: the px call and the title of the Excel branch
ExcelTitle(kind, x, y) ==
    CASE kind = "Bar Chart" -> <<y, " by ", x>>
      [] kind = "Pie Chart" -> <<y, " distribution by ", x>>
      [] kind = "Line Chart" -> <<y, " trend by ", x>>
      [] kind = "Scatter Plot" -> <<y, " vs ", x>>

\* lines 95-107 / 116-128: guard, unpacking (IndexError on a short list),
\* chart construction; titled is TRUE in the Excel branch
build_chart(c, kind, titled) ==
    IF ~ChartGuard(c) THEN [fig |-> NoFig, err |-> NoErr]
    ELSE IF Len(c) < 2 THEN [fig |-> NoFig, err |-> "IndexError"]
    ELSE LET a == ChartAxes(c)
         IN  [fig |-> [kind |-> kind, x |-> a.x, y |-> a.y,
                       title |-> IF titled THEN ExcelTitle(kind, a.x, a.y)
                                 ELSE <<>>],
              err |-> NoErr]

Ellipsis == <<".", ".", ".">>

\* lines 134 / 148: text[:2000] + "..." if len(text) > 2000 else text
Preview_AtLimit(t) ==
    IF Len(t) >= PreviewLimit
    THEN SubSeq(t, 1, Min(PreviewLimit, Len(t))) \o Ellipsis ELSE t
Preview(t) ==
    IF Len(t) > PreviewLimit
    THEN SubSeq(t, 1, Min(PreviewLimit, Len(t))) \o Ellipsis ELSE t

\* lines 136 / 150: if text
CloudGuard(t) == t # <<>>

\* lines 137 / 151: the argument of generate_wordcloud
CloudInput_Preview(t) == Preview(t)
CloudInput(t) == t

Emit(w, v) == [w |-> w, v |-> v]

-----------------------------------------------------------------------------
(* The inputs a user can supply *)

SeqUpTo(S, n) == UNION {[1..k -> S] : k \in 0..n}

CaseVariants(e) ==
    {s \in [1..Len(e) -> UNION {{e[i], upper_char(e[i])} : i \in 1..Len(e)}] :
        \A i \in 1..Len(e) : s[i] \in {e[i], upper_char(e[i])}}

upper(s) == [i \in 1..Len(s) |-> upper_char(s[i])]

\* the uploader only lets through names that end in an accepted extension
NamesFor(e) ==
    {<<"r", ".">> \o v : v \in CaseVariants(e)}
        \cup {<<"r", ".", "v", ".">> \o e, <<"r", ".", "v", ".">> \o upper(e)}

Long == [i \in 1..LongLen |-> "a"]
Hello == <<"H", "e", "l", "l", "o">>
World == <<"W", "o", "r", "l", "d">>

PageTexts == {NoText, <<" ">>, Long}
ParaTexts == {<<>>, <<" ", " ">>, Hello, World, Long}

Workbook ==
    << [name |-> "S1", columns |-> <<"A", "B", "C">>],
       [name |-> "S2", columns |-> <<"B", "A">>] >>
CsvColumns == <<"A", "B", "C">>

Range(f) == {f[i] : i \in DOMAIN f}

\* what st.multiselect can return: distinct options in the order picked
OrderedSelections(options) ==
    {s \in SeqUpTo(Range(options), Len(options)) :
        \A i, j \in 1..Len(s) : i # j => s[i] # s[j]}

File(n, p, sh, c, pg, pr) ==
    [name |-> n, parse |-> p, sheets |-> sh, columns |-> c, pages |-> pg,
     paragraphs |-> pr]

\* the uploader while it holds no file (falsy at line 81)
NoUpload == File(<<>>, "none", <<>>, <<>>, <<>>, <<>>)

ExcelFiles ==
    {File(n, p, Workbook, <<>>, <<>>, <<>>) :
        n \in NamesFor(XLSX) \cup NamesFor(XLS),
        p \in {"ok", "corrupt", "badsheet"}}
CsvFiles ==
    {File(n, p, <<>>, CsvColumns, <<>>, <<>>) :
        n \in NamesFor(CSV), p \in {"ok", "corrupt"}}
PdfFiles ==
    {File(n, "ok", <<>>, <<>>, pg, <<>>) :
        n \in NamesFor(PDF), pg \in SeqUpTo(PageTexts, MaxPages)}
        \cup {File(n, "corrupt", <<>>, <<>>, <<>>, <<>>) : n \in NamesFor(PDF)}
DocxFiles ==
    {File(n, "ok", <<>>, <<>>, <<>>, pr) :
        n \in NamesFor(DOCX), pr \in SeqUpTo(ParaTexts, MaxParas)}
        \cup {File(n, "corrupt", <<>>, <<>>, <<>>, <<>>) : n \in NamesFor(DOCX)}

SheetColumns(f, s) ==
    LET k == CHOOSE i \in 1..Len(f.sheets) : f.sheets[i].name = s
    IN  f.sheets[k].columns

-----------------------------------------------------------------------------
(* The script run *)

RunReset ==
    /\ pc' = "top"
    /\ file_type' = None
    /\ branch' = None
    /\ sheet_names' = <<>>
    /\ selected_sheet' = None
    /\ df' = <<>>
    /\ cols' = <<>>
    /\ fig' = NoFig
    /\ text' = <<>>
    /\ wc_calls' = <<>>
    /\ out' = <<>>
    /\ err' = NoErr

\* The widget values a run can start with: nothing uploaded, or one file of
\* an accepted type together with the selections that its content allows.
Inputs(f, chart, sheet, sel) ==
    \/ /\ f = NoUpload
       /\ chart \in ChartTypes
       /\ sheet = None
       /\ sel = <<>>
    \/ /\ f \in ExcelFiles
       /\ chart \in ChartTypes
       /\ IF f.parse = "ok"
          THEN /\ sheet \in {f.sheets[i].name : i \in 1..Len(f.sheets)}
               /\ sel \in OrderedSelections(SheetColumns(f, sheet))
          ELSE /\ sheet = f.sheets[1].name
               /\ sel = <<>>
    \/ /\ f \in CsvFiles
       /\ chart \in ChartTypes
       /\ sheet = None
       /\ IF f.parse = "ok"
          THEN sel \in OrderedSelections(f.columns)
          ELSE sel = <<>>
    \/ /\ f \in PdfFiles \cup DocxFiles
       /\ chart = "Bar Chart"
       /\ sheet = None
       /\ sel = <<>>

Init ==
    /\ pc = "top"
    /\ Inputs(uploaded_file, chart_type, ui_sheet, ui_cols)
    /\ file_type = None
    /\ branch = None
    /\ sheet_names = <<>>
    /\ selected_sheet = None
    /\ df = <<>>
    /\ cols = <<>>
    /\ fig = NoFig
    /\ text = <<>>
    /\ wc_calls = <<>>
    /\ out = <<>>
    /\ err = NoErr
    /\ handles = {}
    /\ args = <<>>
    /\ ret = <<>>

\* The user picks another chart type in the sidebar after a run over a
\* tabular file: Streamlit runs the script again from the top.
ChangeChartType ==
    /\ pc \in {"done", "failed"}
    /\ branch \in {"excel", "csv"}
    /\ chart_type' \in ChartTypes \ {chart_type}
    /\ RunReset
    /\ UNCHANGED <<uploaded_file, ui_sheet, ui_cols, handles, args, ret>>

\* The user removes the file from the uploader: the script runs again with
\* the widgets that depended on the file gone.
RemoveFile ==
    /\ pc \in {"done", "failed"}
    /\ uploaded_file # NoUpload
    /\ uploaded_file' = NoUpload
    /\ ui_sheet' = None
    /\ ui_cols' = <<>>
    /\ RunReset
    /\ UNCHANGED <<chart_type, handles, args, ret>>

Widgets == <<uploaded_file, chart_type, ui_sheet, ui_cols>>

\* lines 12-34: page configuration, title and the sidebar widgets
Top ==
    /\ pc = "top"
    /\ out' = out \o << Emit("title", "Data Visualizer & Analyzer"),
                        Emit("sidebar_header", "Upload Your File"),
                        Emit("file_uploader", "Upload Excel, CSV, PDF, or Word"),
                        Emit("sidebar_header", "Visualization Options"),
                        Emit("chart_selectbox", chart_type) >>
    /\ pc' = "main"
    /\ UNCHANGED <<Widgets, file_type, branch, sheet_names, selected_sheet,
                   df, cols, fig, text, wc_calls, err, handles, args, ret>>

\* lines 158-159: no file uploaded
NoFile ==
    /\ pc = "main"
    /\ uploaded_file = NoUpload
    /\ out' = Append(out, Emit("info", "Please upload a file"))
    /\ pc' = "done"
    /\ UNCHANGED <<Widgets, file_type, branch, sheet_names, selected_sheet,
                   df, cols, fig, text, wc_calls, err, handles, args, ret>>

\* lines 81-84, 109, 130, 144: file_type and the choice of the branch
Dispatch ==
    /\ pc = "main"
    /\ uploaded_file # NoUpload
    /\ file_type' = file_type_of(uploaded_file.name)
    /\ branch' = BranchOf(file_type')
    /\ pc' = IF branch' = "excel" THEN "excel_sheets"
             ELSE IF branch' = "csv" THEN "csv_read"
             ELSE IF branch' = "pdf" THEN "pdf_heading"
             ELSE IF branch' = "docx" THEN "docx_heading"
             ELSE "done"
    /\ UNCHANGED <<Widgets, sheet_names, selected_sheet, df, cols, fig, text,
                   wc_calls, out, err, handles, args, ret>>

\* lines 86-87.  get_excel_sheet_names leaves its pd.ExcelFile unclosed: the
\* handle goes when the collector reclaims the object, which may or may not
\* have happened when the helper is back in the caller.
ExcelSheets ==
    /\ pc = "excel_sheets"
    /\ LET r == get_excel_sheet_names(uploaded_file)
       IN  IF r.err # NoErr
           THEN /\ err' = r.err
                /\ pc' = "failed"
                /\ UNCHANGED <<sheet_names, selected_sheet, out>>
           ELSE /\ sheet_names' = r.sheet_names
                /\ selected_sheet' = ui_sheet
                /\ out' = Append(out, Emit("sheet_selectbox", ui_sheet))
                /\ pc' = "excel_read"
                /\ err' = err
    /\ \E collected \in BOOLEAN :
          handles' = IF collected THEN handles ELSE handles \cup {"ExcelFile"}
    /\ UNCHANGED <<Widgets, file_type, branch, df, cols, fig, text, wc_calls,
                   args, ret>>

\* lines 88-91
ExcelRead ==
    /\ pc = "excel_read"
    /\ LET r == read_excel(uploaded_file, selected_sheet)
       IN  IF r.err # NoErr
           THEN /\ err' = r.err
                /\ pc' = "failed"
                /\ UNCHANGED <<df, out>>
           ELSE /\ df' = r.columns
                /\ out' = out \o << Emit("subheader", "Data Preview: sheet"),
                                    Emit("dataframe", "df.head()") >>
                /\ pc' = "excel_chart"
                /\ err' = err
    /\ UNCHANGED <<Widgets, file_type, branch, sheet_names, selected_sheet,
                   cols, fig, text, wc_calls, handles, args, ret>>

\* lines 94-107 (titled) and 115-128 (untitled)
ChartStep(titled) ==
    /\ cols' = ui_cols
    /\ LET r == build_chart(cols', chart_type, titled)
       IN  /\ fig' = r.fig
           /\ err' = r.err
           /\ out' = out \o << Emit("multiselect", "Select Columns to Visualize") >>
                         \o (IF r.fig # NoFig
                             THEN << Emit("plotly_chart", r.fig.kind) >>
                             ELSE <<>>)
           /\ pc' = IF r.err # NoErr THEN "failed" ELSE "done"
    /\ UNCHANGED <<Widgets, file_type, branch, sheet_names, selected_sheet,
                   df, text, wc_calls, handles, args, ret>>

ExcelChart ==
    /\ pc = "excel_chart"
    /\ ChartStep(TRUE)

\* lines 111-113
CsvRead ==
    /\ pc = "csv_read"
    /\ LET r == read_csv(uploaded_file)
       IN  IF r.err # NoErr
           THEN /\ err' = r.err
                /\ pc' = "failed"
                /\ UNCHANGED <<df, out>>
           ELSE /\ df' = r.columns
                /\ out' = out \o << Emit("subheader", "Data Preview"),
                                    Emit("dataframe", "df.head()") >>
                /\ pc' = "csv_chart"
                /\ err' = err
    /\ UNCHANGED <<Widgets, file_type, branch, sheet_names, selected_sheet,
                   cols, fig, text, wc_calls, handles, args, ret>>

CsvChart ==
    /\ pc = "csv_chart"
    /\ ChartStep(FALSE)

\* lines 132 / 146: the subheader that precedes the extraction
Heading(at, label, next) ==
    /\ pc = at
    /\ out' = Append(out, Emit("subheader", label))
    /\ pc' = next
    /\ UNCHANGED <<Widgets, file_type, branch, sheet_names, selected_sheet,
                   df, cols, fig, text, wc_calls, err, handles, args, ret>>

PdfHeading == Heading("pdf_heading", "Extracted Text from PDF", "pdf_extract")
DocxHeading ==
    Heading("docx_heading", "Extracted Text from Word Document", "docx_extract")

\* lines 133 / 147: the extraction; r is what the helper returned
Extract(at, r, next) ==
    /\ pc = at
    /\ IF r.err # NoErr
       THEN /\ err' = r.err
            /\ pc' = "failed"
            /\ text' = text
       ELSE /\ text' = r.text
            /\ pc' = next
            /\ err' = err
    /\ UNCHANGED <<Widgets, file_type, branch, sheet_names, selected_sheet,
                   df, cols, fig, wc_calls, out, handles, args, ret>>

PdfExtract ==
    Extract("pdf_extract",
            extract_text_from_pdf(uploaded_file, 0, DefaultEndPage),
            "pdf_preview")
DocxExtract ==
    Extract("docx_extract", extract_text_from_docx(uploaded_file),
            "docx_preview")

\* lines 134 / 148: st.write of the preview
WritePreview(at, next) ==
    /\ pc = at
    /\ out' = Append(out, Emit("write", Preview(text)))
    /\ pc' = next
    /\ UNCHANGED <<Widgets, file_type, branch, sheet_names, selected_sheet,
                   df, cols, fig, text, wc_calls, err, handles, args, ret>>

PdfPreview == WritePreview("pdf_preview", "pdf_cloud")
DocxPreview == WritePreview("docx_preview", "docx_cloud")

\* lines 136-142 / 150-156: the word cloud
Cloud(at, label) ==
    /\ pc = at
    /\ IF CloudGuard(text)
       THEN LET r == generate_wordcloud(CloudInput(text))
            IN  /\ wc_calls' = Append(wc_calls, CloudInput(text))
                /\ IF r.err # NoErr
                   THEN /\ err' = r.err
                        /\ pc' = "failed"
                        /\ out' = out
                   ELSE /\ out' = out \o << Emit("subheader", label),
                                           Emit("pyplot", r.image) >>
                        /\ pc' = "done"
                        /\ err' = err
       ELSE /\ pc' = "done"
            /\ UNCHANGED <<wc_calls, out, err>>
    /\ UNCHANGED <<Widgets, file_type, branch, sheet_names, selected_sheet,
                   df, cols, fig, text, handles, args, ret>>

PdfCloud == Cloud("pdf_cloud", "Word Cloud from PDF")
DocxCloud == Cloud("docx_cloud", "Word Cloud from Word Document")

Next ==
    \/ ChangeChartType
    \/ RemoveFile
    \/ Top
    \/ NoFile
    \/ Dispatch
    \/ ExcelSheets
    \/ ExcelRead
    \/ ExcelChart
    \/ CsvRead
    \/ CsvChart
    \/ PdfHeading
    \/ PdfExtract
    \/ PdfPreview
    \/ PdfCloud
    \/ DocxHeading
    \/ DocxExtract
    \/ DocxPreview
    \/ DocxCloud

Spec == Init /\ [][Next]_vars

-----------------------------------------------------------------------------
(* A direct call of extract_text_from_pdf with an arbitrary page window *)

DirectPageTexts == <<NoText, <<"a", "b">>, <<" ">>, <<>>, <<"a", "b", " ">>>>

\* a PDF of n pages
PdfDoc(n) ==
    File(<<"r", ".", "p", "d", "f">>, "ok", <<>>, <<>>,
         [i \in 1..n |-> DirectPageTexts[(i % Len(DirectPageTexts)) + 1]],
         <<>>)

InitPdf ==
    /\ pc = "call"
    /\ args \in [n : 0..MaxDocPages, start_page : 0..MaxStart,
                 end_page : 0..MaxEnd]
    /\ ret = <<>>
    /\ uploaded_file = NoUpload
    /\ chart_type = "Bar Chart"
    /\ ui_sheet = None
    /\ ui_cols = <<>>
    /\ file_type = None
    /\ branch = None
    /\ sheet_names = <<>>
    /\ selected_sheet = None
    /\ df = <<>>
    /\ cols = <<>>
    /\ fig = NoFig
    /\ text = <<>>
    /\ wc_calls = <<>>
    /\ out = <<>>
    /\ err = NoErr
    /\ handles = {}

CallPdf ==
    /\ pc = "call"
    /\ ret' = extract_text_from_pdf(PdfDoc(args.n), args.start_page,
                                    args.end_page)
    /\ pc' = "returned"
    /\ UNCHANGED <<Widgets, file_type, branch, sheet_names, selected_sheet,
                   df, cols, fig, text, wc_calls, out, err, handles, args>>

NextPdf == CallPdf

SpecPdf == InitPdf /\ [][NextPdf]_vars

-----------------------------------------------------------------------------
(* Properties *)

Emitted(w) == \E i \in 1..Len(out) : out[i].w = w

RECURSIVE SumOver(_, _)
SumOver(S, f) ==
    IF S = {} THEN 0
    ELSE LET x == CHOOSE y \in S : TRUE
         IN  f[x] + SumOver(S \ {x}, f)

\* name ends in a dot followed by e in any mix of upper and lower case
HasExt(name, e) ==
    /\ Len(name) > Len(e)
    /\ name[Len(name) - Len(e)] = "."
    /\ \A i \in 1..Len(e) :
          name[Len(name) - Len(e) + i] \in {e[i], upper_char(e[i])}

FormatBranch(e) ==
    CASE e = XLSX -> "excel" [] e = XLS -> "excel" [] e = CSV -> "csv"
      [] e = PDF -> "pdf" [] e = DOCX -> "docx"

\* C1: once the dispatch has run for an uploaded file whose extension is an
\* accepted one in any mix of case, exactly one format branch has been
\* selected, it is the branch of the lower-case extension, and xlsx and xls
\* both select the spreadsheet branch.
Thm_C1 ==
    (uploaded_file # NoUpload /\ pc \notin {"top", "main"}) =>
        /\ branch \in {"excel", "csv", "pdf", "docx"}
        /\ \A e \in AcceptedTypes :
              HasExt(uploaded_file.name, e) => branch = FormatBranch(e)

Wit_C1 ==
    /\ pc = "done"
    /\ uploaded_file.name = <<"r", ".", "x", "L", "s">>
    /\ branch = "excel"

\* C2: a direct call on an N-page PDF with 0 <= start_page reads exactly the
\* pages start_page <= i < min(end_page, N) in increasing order, never
\* touches an index >= N, raises nothing, and returns their texts joined.
Thm_C2 ==
    pc = "returned" =>
        LET N == args.n
            first == args.start_page
            cnt == Max(0, Min(args.end_page, N) - first)
            pages == PdfDoc(N).pages
            len == [k \in 1..cnt |-> Len(OrEmpty(pages[first + k]))]
        IN  /\ ret.err = NoErr
            /\ Len(ret.accessed) = cnt
            /\ \A k \in 1..cnt : ret.accessed[k] = first + k - 1
            /\ \A k \in 1..Len(ret.accessed) : ret.accessed[k] < N
            /\ Len(ret.text) = SumOver(1..cnt, len)
            /\ \A k \in 1..cnt :
                  LET off == SumOver(1..(k - 1), len)
                  IN  SubSeq(ret.text, off + 1, off + len[k])
                          = OrEmpty(pages[first + k])

Wit_C2 ==
    /\ pc = "returned"
    /\ args = [n |-> 10, start_page |-> 8, end_page |-> 20]
    /\ ret.accessed = <<8, 9>>
    /\ ret.err = NoErr

NonBlank(p) == \E i \in 1..Len(p) : p[i] \notin Whitespace

DocxRead ==
    /\ branch = "docx"
    /\ uploaded_file.parse = "ok"
    /\ pc \in {"docx_preview", "docx_cloud", "done", "failed"}

\* C3: the text extracted from a DOCX is made of exactly the paragraphs that
\* hold a non-whitespace character, in document order, each followed by one
\* space except the last, and of nothing else.
Thm_C3 ==
    DocxRead =>
        LET paras == uploaded_file.paragraphs
            K == {i \in 1..Len(paras) : NonBlank(paras[i])}
            width == [i \in K |->
                         Len(paras[i]) + (IF \E j \in K : j > i THEN 1 ELSE 0)]
            off == [i \in K |-> SumOver({j \in K : j < i}, width)]
        IN  /\ Len(text) = SumOver(K, width)
            /\ \A i \in K :
                  /\ SubSeq(text, off[i] + 1, off[i] + Len(paras[i])) = paras[i]
                  /\ (\E j \in K : j > i)
                        => text[off[i] + Len(paras[i]) + 1] = " "

Wit_C3 ==
    /\ pc = "done"
    /\ branch = "docx"
    /\ uploaded_file.paragraphs = <<Hello, <<>>, <<" ", " ">>, World>>
    /\ text = Hello \o <<" ">> \o World

DocumentRead ==
    /\ branch \in {"pdf", "docx"}
    /\ uploaded_file.parse = "ok"
    /\ pc \in {"done", "failed"}

\* C4 (as claimed): in the PDF and DOCX branches a text that is empty after
\* trimming leads to no call of generate_wordcloud, and the run ends without
\* failing, with the text preview rendered.
Orig_C4 ==
    (DocumentRead /\ strip(text) = <<>>) =>
        /\ wc_calls = <<>>
        /\ pc = "done"
        /\ err = NoErr
        /\ Emitted("write")

TabularRead ==
    /\ branch \in {"excel", "csv"}
    /\ uploaded_file.parse = "ok"
    /\ pc \in {"done", "failed"}

\* C5: in both tabular branches, with fewer than two columns selected the
\* run ends without an error, no chart has been constructed and none has
\* been rendered, whatever the chart kind.
Thm_C5 ==
    (TabularRead /\ Len(ui_cols) < 2) =>
        /\ pc = "done"
        /\ err = NoErr
        /\ fig = NoFig
        /\ ~Emitted("plotly_chart")

Wit_C5 ==
    /\ pc = "done"
    /\ branch = "csv"
    /\ chart_type = "Pie Chart"
    /\ ui_cols = <<"B">>
    /\ cols = ui_cols
    /\ Emitted("multiselect")

\* C6: in both tabular branches, with two or more columns selected the chart
\* built is of the selected kind, has the first selected column as x and the
\* second as y, in the order of the selection, and uses no later column.
Thm_C6 ==
    (TabularRead /\ Len(ui_cols) >= 2) =>
        /\ pc = "done"
        /\ Emitted("plotly_chart")
        /\ fig.kind = chart_type
        /\ fig.x = ui_cols[1]
        /\ fig.y = ui_cols[2]
        /\ \A k \in 3..Len(ui_cols) :
              ui_cols[k] \notin {fig.x, fig.y} \cup Range(fig.title)

Wit_C6 ==
    /\ pc = "done"
    /\ branch = "excel"
    /\ df = <<"A", "B", "C">>
    /\ ui_cols = <<"C", "A", "B">>
    /\ fig.x = "C"
    /\ fig.y = "A"

EndsWithEllipsis(v) ==
    /\ Len(v) >= Len(Ellipsis)
    /\ SubSeq(v, Len(v) - Len(Ellipsis) + 1, Len(v)) = Ellipsis

\* C7 (as claimed): the excerpt written to the page is at most 2000
\* characters long, ends in the ellipsis exactly when the text is longer
\* than 2000 characters, and is the whole text otherwise.
Orig_C7 ==
    \A i \in 1..Len(out) :
        out[i].w = "write" =>
            /\ Len(out[i].v) <= PreviewLimit
            /\ EndsWithEllipsis(out[i].v) <=> Len(text) > PreviewLimit
            /\ Len(text) <= PreviewLimit => out[i].v = text

\* C7 (amended): the excerpt written to the page is the whole text when the
\* text has at most 2000 characters; otherwise it is the first 2000
\* characters of the text followed by the three-character ellipsis, 2003
\* characters in all.
Thm_C7 ==
    \A i \in 1..Len(out) :
        out[i].w = "write" =>
            IF Len(text) > PreviewLimit
            THEN /\ Len(out[i].v) = PreviewLimit + Len(Ellipsis)
                 /\ \A k \in 1..PreviewLimit : out[i].v[k] = text[k]
                 /\ EndsWithEllipsis(out[i].v)
            ELSE out[i].v = text

Wit_C7 ==
    /\ pc = "done"
    /\ branch = "pdf"
    /\ Len(text) > PreviewLimit
    /\ \E i \in 1..Len(out) :
          out[i].w = "write" /\ Len(out[i].v) = PreviewLimit + Len(Ellipsis)

\* what the extractor of the branch returns for the uploaded file
Extracted ==
    IF branch = "pdf"
    THEN extract_text_from_pdf(uploaded_file, 0, DefaultEndPage).text
    ELSE extract_text_from_docx(uploaded_file).text

\* C8: in the PDF and DOCX branches generate_wordcloud is called at most
\* once, with the whole text the extractor returned, and the text the run
\* holds after the preview is still that text, also when the preview was
\* truncated.
Thm_C8 ==
    /\ Len(wc_calls) <= 1
    /\ \A k \in 1..Len(wc_calls) : wc_calls[k] = Extracted
    /\ (branch \in {"pdf", "docx"} /\ pc \in {"pdf_cloud", "docx_cloud", "done"})
          => text = Extracted
    /\ (DocumentRead /\ pc = "done" /\ text # <<>>) => Len(wc_calls) = 1

Wit_C8 ==
    /\ pc = "done"
    /\ branch = "docx"
    /\ Len(text) > PreviewLimit
    /\ wc_calls = <<text>>
    /\ \E i \in 1..Len(out) :
          out[i].w = "write" /\ out[i].v # text

RunOutput ==
    {"subheader", "sheet_selectbox", "dataframe", "multiselect", "write",
     "plotly_chart", "pyplot"}

\* C9 (as claimed): a run that failed with a parse error has emitted no
\* heading, sheet selector, table preview, text preview, chart or word cloud.
Orig_C9 ==
    (pc = "failed" /\ err = "ParseError") =>
        \A i \in 1..Len(out) : out[i].w \notin RunOutput

\* C10 (as claimed): whenever control is in the main script, outside every
\* helper, no container handle opened by a helper is still open.
Orig_C10 == handles = {}

====
